---- MODULE Spec2Model ----
(***************************************************************************)
(* LingoLens: the client-side orchestration layer.                         *)
(*                                                                         *)
(* The model follows the React components of the repository:               *)
(*   App (src/App.tsx)             view routing, history list, quick view  *)
(*   AnalysisCard (part_001:1-161) favourite toggle, mnemonic image        *)
(*   DailyStudy (part_001:163-558) preferences, lesson session, quiz       *)
(*   geminiService (part_000)      analyzeContent, generateMnemonicImage   *)
(*                                                                         *)
(* A handler that awaits the provider is two actions: the synchronous part *)
(* up to the await, which puts a request into the bag `pending`, and the   *)
(* continuation, which takes the request out again together with the       *)
(* provider's outcome.  A request carries what the handler's closure had   *)
(* captured when it was called.  State setters of an unmounted component   *)
(* have no effect; a request remembers whether the component instance that *)
(* issued it is still mounted (`alive`).                                   *)
(***************************************************************************)
EXTENDS Integers, Sequences, FiniteSets, Bags

\* ------------------------------------------------------------------ bounds
ClockStart == 8
MaxClock == 10
MaxHistory == 2
MaxPendingQuick == 2
MaxPendingImage == 2
MaxPendingLesson == 1
MaxLesson == 2
MaxParts == 2
MaxGoal == 3
MaxSentences == 1
MaxPendingStory == 1
MaxPendingTts == 2
MaxNodes == 2
NumOptions == 2
MaxMessages == 3
MaxPendingChat == 2

\* ------------------------------------------------------- program constants
SliderMin == 3
DefaultGoal == 5
IdLength == 9

\* ------------------------------------------------------------ value spaces
Views == {"HOME", "ANALYSIS", "HISTORY", "FAVORITES", "DAILY_STUDY"}
NavViews == {"HOME", "DAILY_STUDY", "FAVORITES", "HISTORY"}

\* `null` of the nullable strings, ids, options, images
NullStr == "null"
NullId == <<>>
NoOption == -1
NoImage == [present |-> FALSE, payload |-> ""]

\* a data URI as FileReader.readAsDataURL yields it: header "," payload.
\* The payload is empty for an empty file.
DataUris == {[present |-> TRUE, payload |-> "AAAA"], [present |-> TRUE, payload |-> ""]}
Images == {NoImage} \cup DataUris

TextInputs == {"", "hello"}
Words == {"", "w"}
ImageData == {"img1", "img2"}
Levels == {"A1", "B1"}
Goals == {g \in SliderMin..DefaultGoal : g <= MaxGoal \/ g = DefaultGoal}

ErrAnalyze == "Failed to analyze content. Please try again."
ErrNoInput == "No input provided"

\* JavaScript truthiness of a string | null
Truthy(s) == s # NullStr /\ s # ""

\* Number.prototype.toString for a non-negative integer: its decimal digits
RECURSIVE toString(_)
toString(n) == IF n < 10 THEN <<n>> ELSE toString(n \div 10) \o <<n % 10>>

Min(a, b) == IF a <= b THEN a ELSE b

\* `null` of HistoryItem | null and of UserPreferences | null
NoUrl == <<>>
NoItem == [id |-> NullId, timestamp |-> 0, data |-> "", isFavorite |-> FALSE, generatedImageUrl |-> NoUrl]
NoPrefs == [level |-> "none", dailyGoal |-> 0, streak |-> 0, lastStudyDate |-> ""]

\* ---------------------------------------------------------------- gateway
\* analyzeContent up to the provider call: the content parts it builds, or
\* the error it throws before the call.
InputLanguage(src) == IF src = "Auto" THEN "Detect automatically" ELSE src

Part(kind, value) == [kind |-> kind, value |-> value]

\* variants of analyzeContent's input check: without the final throw, and
\* with a throw when both inputs are supplied
AnalyzeContentPartsNoThrow(text, imageBase64, src, tgt) ==
    LET prompt == Part("prompt", <<InputLanguage(src), tgt>>) IN
    IF Truthy(imageBase64)
    THEN [threw |-> FALSE, message |-> "",
          parts |-> <<prompt, Part("inlineData", <<"image/jpeg", imageBase64>>),
                      Part("text", <<"Extract the text from this image and analyze it.">>)>>]
    ELSE [threw |-> FALSE, message |-> "",
          parts |-> <<prompt, Part("text", <<"Analyze this text: ", text>>)>>]

AnalyzeContentPartsExactlyOne(text, imageBase64, src, tgt) ==
    LET prompt == Part("prompt", <<InputLanguage(src), tgt>>) IN
    IF Truthy(imageBase64) /\ ~Truthy(text)
    THEN [threw |-> FALSE, message |-> "",
          parts |-> <<prompt, Part("inlineData", <<"image/jpeg", imageBase64>>),
                      Part("text", <<"Extract the text from this image and analyze it.">>)>>]
    ELSE IF Truthy(text) /\ ~Truthy(imageBase64)
    THEN [threw |-> FALSE, message |-> "",
          parts |-> <<prompt, Part("text", <<"Analyze this text: ", text>>)>>]
    ELSE [threw |-> TRUE, message |-> ErrNoInput, parts |-> <<>>]

AnalyzeContentParts(text, imageBase64, src, tgt) ==
    LET prompt == Part("prompt", <<InputLanguage(src), tgt>>) IN
    IF Truthy(imageBase64)
    THEN [threw |-> FALSE, message |-> "",
          parts |-> <<prompt, Part("inlineData", <<"image/jpeg", imageBase64>>),
                      Part("text", <<"Extract the text from this image and analyze it.">>)>>]
    ELSE IF Truthy(text)
    THEN [threw |-> FALSE, message |-> "",
          parts |-> <<prompt, Part("text", <<"Analyze this text: ", text>>)>>]
    ELSE [threw |-> TRUE, message |-> ErrNoInput, parts |-> <<>>]

\* what the provider does with an analysis request
AnalysisOutcomes == {"error", "empty", "malformed", "json"}

\* analyzeContent after the provider call: the parsed analysis, or a throw
AnalyzeContentResult(outcome, data) ==
    IF outcome = "json" THEN [threw |-> FALSE, data |-> data]
    ELSE [threw |-> TRUE, data |-> ""]

\* the text the provider analysed, standing for the whole LearningAnalysis
AnalysisOf(parts) ==
    IF parts[2].kind = "inlineData" THEN "ocr" ELSE parts[2].value[2]

\* what the provider does with an image request: an error, or the content
\* parts of the first candidate (none when a level of the response is missing)
ResponseParts == {[inline |-> FALSE, mimeType |-> "", data |-> ""]}
                 \cup {[inline |-> TRUE, mimeType |-> "image/png", data |-> d] : d \in ImageData}

RECURSIVE SeqsUpTo(_, _)
SeqsUpTo(S, n) ==
    IF n = 0 THEN {<<>>}
    ELSE LET shorter == SeqsUpTo(S, n - 1)
         IN shorter \cup {Append(q, x) : q \in {r \in shorter : Len(r) = n - 1}, x \in S}

ImageOutcomes == {[kind |-> "error", parts |-> <<>>]}
                 \cup {[kind |-> "ok", parts |-> q] : q \in SeqsUpTo(ResponseParts, MaxParts)}

DataUri(mimeType, data) == <<"data:", mimeType, ";base64,", data>>

\* variant of the scan for inline data: the first part, whatever it is
FirstInlineAnyPart(parts) ==
    IF parts = <<>> THEN NoUrl
    ELSE DataUri(Head(parts).mimeType, Head(parts).data)

RECURSIVE FirstInline(_)
FirstInline(parts) ==
    IF parts = <<>> THEN NoUrl
    ELSE IF Head(parts).inline THEN DataUri(Head(parts).mimeType, Head(parts).data)
    ELSE FirstInline(Tail(parts))

\* generateMnemonicImage, given the provider's outcome
GenerateMnemonicImage(outcome) ==
    IF outcome.kind = "error" THEN NoUrl ELSE FirstInline(outcome.parts)

VARIABLES
    \* App
    view, history, currentId, textInput, selectedImage, isAnalyzing, error,
    quickViewItem, isQuickAnalyzing, sourceLang, targetLang, showStoryMode,
    \* AnalysisCard instances: the one of the analysis view and the one of the modal;
    \* lastUrl tells what the url of handleGenerateImage was when the step before
    \* was its continuation ("empty", "url"), and is "none" otherwise
    generatingImage, lastUrl,
    \* DailyStudy
    preferences, isLoading, lesson, currentIndex, completed, selectedOption,
    isCorrect, tempLevel, tempGoal,
    \* StoryGenerator, and the source nodes of the page's audio contexts that
    \* play or have an ended event queued
    storyGen, audio,
    \* the ChatWidget of each AnalysisCard instance
    chat,
    \* localStorage 'lingo_daily_prefs' and 'lingo_history'
    storedPrefs, storedHistory,
    \* an uncaught exception has unmounted the React root
    crashed,
    \* the mount of App: the effects React has still to run in this commit,
    \* the setHistory calls queued for the next render, and the text that the
    \* history key held when the page was loaded
    mount,
    \* environment: the last reading of Date.now() and whether the step before
    \* took it ("response": a continuation, "click": a click handler), the
    \* provider calls outstanding
    now, clockRead, pending,
    \* the gateway called directly: arguments and result of the last call
    gwCall

appVars == <<view, history, currentId, textInput, selectedImage, isAnalyzing, error,
             quickViewItem, isQuickAnalyzing, sourceLang, targetLang, showStoryMode>>
dailyVars == <<preferences, isLoading, lesson, currentIndex, completed, selectedOption,
               isCorrect, tempLevel, tempGoal>>
vars == <<appVars, generatingImage, lastUrl, dailyVars, storyGen, audio, chat, storedPrefs, storedHistory,
          crashed, mount, now, clockRead, pending, gwCall>>

\* ----------------------------------------------------- requests in flight
Slots == {"main", "modal"}

Request(kind) ==
    [kind |-> kind, data |-> "", id |-> NullId, slot |-> "",
     alive |-> TRUE, qvId |-> NullId, level |-> "", count |-> 0, turns |-> <<>>]

RECURSIVE SumOver(_, _)
SumOver(S, B) ==
    IF S = {} THEN 0
    ELSE LET x == CHOOSE y \in S : TRUE IN B[x] + SumOver(S \ {x}, B)

\* number of outstanding requests of a kind
Outstanding(B, kind) == SumOver({r \in BagToSet(B) : r.kind = kind}, B)

\* the requests of B, those issued by a component instance that has been
\* unmounted marked as such
Orphaned(r, deadSlots, dailyDead, storyDead) ==
    IF \/ (r.kind \in {"image", "chat"} /\ r.slot \in deadSlots)
       \/ (r.kind = "lesson" /\ dailyDead)
       \/ (r.kind \in {"story", "tts"} /\ storyDead)
    THEN [r EXCEPT !.alive = FALSE] ELSE r

Orphan(B, deadSlots, dailyDead, storyDead) ==
    LET S == BagToSet(B)
        T == {Orphaned(r, deadSlots, dailyDead, storyDead) : r \in S}
    IN [y \in T |-> SumOver({r \in S : Orphaned(r, deadSlots, dailyDead, storyDead) = y}, B)]

One(r) == SetToBag({r})

\* ------------------------------------------------------------ derived state
\* Array.prototype.find over the history list (App.tsx:196)
RECURSIVE Find(_, _)
Find(h, id) ==
    IF h = <<>> THEN NoItem
    ELSE IF Head(h).id = id THEN Head(h) ELSE Find(Tail(h), id)

currentItem == Find(history, currentId)

\* the modal is rendered (App.tsx:388, Modal.tsx:12)
ModalOpen == isQuickAnalyzing \/ quickViewItem # NoItem

\* The modal's backdrop covers the viewport (Modal.tsx:15): the page below it
\* takes no pointer events.  Its <button>s stay reachable by keyboard, the
\* <span>/<div> click targets (words, history rows) do not.
PointerReachesPage == ~ModalOpen

\* the AnalysisCard instance of a slot is rendered (App.tsx:369, 394)
CardMounted(slot, v, h, cid, qv, qa) ==
    IF slot = "main" THEN v = "ANALYSIS" /\ Find(h, cid) # NoItem
    ELSE ~qa /\ qv # NoItem

MountedNow(slot) ==
    CardMounted(slot, view, history, currentId, quickViewItem, isQuickAnalyzing)

\* the item prop of the card of a slot
CardItem(slot) == IF slot = "main" THEN currentItem ELSE quickViewItem

\* which of DailyStudy's four views is rendered (part_001:281, 338, 369, 386)
DailyView(prefs, les, done) ==
    IF prefs = NoPrefs THEN "no-preferences"
    ELSE IF Len(les) = 0 /\ ~done THEN "dashboard"
    ELSE IF done THEN "summary"
    ELSE "in-session"

DailyState ==
    IF view # "DAILY_STUDY" THEN "unmounted" ELSE DailyView(preferences, lesson, completed)

\* <Button disabled isLoading>: the click handler runs only on an enabled,
\* not loading button
ButtonEnabled(disabled, loading) == ~disabled /\ ~loading

\* StoryGenerator is rendered (App.tsx:316, 378)
StoryMounted(v, storyMode) == v = "FAVORITES" /\ storyMode

\* StoryGenerator's useState and useRef initial values (StoryGenerator.tsx:23-32).
\* A story is a number from 1, 0 for null; the audio data carries the number
\* of the story it was made from, 0 for null; a source node is a number from
\* 1, 0 for null.
NoStory == 0
NoNode == 0
StoryFresh ==
    [story |-> NoStory, isLoading |-> FALSE, audioBase64 |-> NoStory, isPlaying |-> FALSE,
     isGeneratingAudio |-> FALSE, sourceNodeRef |-> NoNode]

\* words={items.map(i => i.data.originalText)} of the favourites (App.tsx:294, 318)
StoryWords == {i \in DOMAIN history : history[i].isFavorite}

\* the source nodes that sound
Playing(A) == {n \in A : n.state = "playing"}

\* AudioBufferSourceNode.stop(): the node falls silent and its ended event
\* is queued
StopNode(A, ref) ==
    {IF n.id = ref /\ n.state = "playing" THEN [n EXCEPT !.state = "stopped"] ELSE n : n \in A}

\* the nodes of an unmounted StoryGenerator: their onended sets the state of
\* a component that is gone, which does nothing; those that sound go on
Released(A) == {[n EXCEPT !.owned = FALSE] : n \in Playing(A)}

\* ChatWidget's useState initial values (ChatWidget.tsx:12-14).  A string is
\* the sequence of its characters.  A message carries, besides its role and
\* text, the analysis that was the widget's context when it was exchanged;
\* its id and timestamp are left out.
ChatFresh == [messages |-> <<>>, input |-> <<>>, isLoading |-> FALSE]

\* the context prop of the ChatWidget of a card: the card's item, for its data
\* (part_001:158)
Context(item) == <<item.id, item.data>>

\* String.prototype.trim
RECURSIVE TrimStart(_)
TrimStart(s) == IF s # <<>> /\ Head(s) = " " THEN TrimStart(Tail(s)) ELSE s

RECURSIVE TrimEnd(_)
TrimEnd(s) == IF s # <<>> /\ s[Len(s)] = " " THEN TrimEnd(SubSeq(s, 1, Len(s) - 1)) ELSE s

Trim(s) == TrimEnd(TrimStart(s))

\* -------------------------------------------------------------- localStorage
\* A stored text: absent (getItem gives null), text that JSON.parse rejects,
\* or the JSON text of a value.  JSON.stringify leaves out the properties
\* that are undefined, JSON.parse gives back the properties the text has.
NoHistoryText == [kind |-> "absent", value |-> <<>>]
CorruptHistoryText == [kind |-> "corrupt", value |-> <<>>]
NoPrefsText == [kind |-> "absent", value |-> NoPrefs]
CorruptPrefsText == [kind |-> "corrupt", value |-> NoPrefs]

\* variant of the item's JSON text: without the image
StringifyItemNoImage(item) ==
    [id |-> item.id, timestamp |-> item.timestamp, data |-> item.data,
     isFavorite |-> item.isFavorite]

StringifyItem(item) ==
    IF item.generatedImageUrl = NoUrl
    THEN [id |-> item.id, timestamp |-> item.timestamp, data |-> item.data,
          isFavorite |-> item.isFavorite]
    ELSE [id |-> item.id, timestamp |-> item.timestamp, data |-> item.data,
          isFavorite |-> item.isFavorite, generatedImageUrl |-> item.generatedImageUrl]

ParseItem(e) ==
    [id |-> e.id, timestamp |-> e.timestamp, data |-> e.data, isFavorite |-> e.isFavorite,
     generatedImageUrl |-> IF "generatedImageUrl" \in DOMAIN e THEN e.generatedImageUrl ELSE NoUrl]

\* JSON.stringify(history) (App.tsx:68)
StringifyHistory(h) == [kind |-> "json", value |-> [i \in DOMAIN h |-> StringifyItem(h[i])]]

\* the load effect of App: the stored list, or the initial empty list when
\* nothing is stored or the text does not parse (App.tsx:50-58)
LoadHistory(text) ==
    IF text.kind = "json" THEN [i \in DOMAIN text.value |-> ParseItem(text.value[i])] ELSE <<>>

\* JSON.stringify(newPrefs) (part_001:214)
StringifyPrefs(prefs) == [kind |-> "json", value |-> prefs]

\* the mount effect of DailyStudy: JSON.parse of the stored text, if there
\* is one, without a try (part_001:199-204)
LoadPrefsThrows(text) == text.kind = "corrupt"
LoadPrefs(text) == IF text.kind = "json" THEN text.value ELSE NoPrefs

\* App is mounted: no effect is left to run, no update is queued
Mounted == [effects |-> <<>>, queue |-> <<>>, before |-> NoHistoryText]

MountDone == mount.effects = <<>> /\ mount.queue = <<>>

\* ------------------------------------------------------------------- Init
\* DailyStudy's useState initial values, with the preferences its mount
\* effect loads (part_001:185-204)
DailyFresh(prefs) ==
    /\ preferences' = prefs
    /\ isLoading' = FALSE
    /\ lesson' = <<>>
    /\ currentIndex' = 0
    /\ completed' = FALSE
    /\ selectedOption' = NoOption
    /\ isCorrect' = NullStr
    /\ tempLevel' = "B1"
    /\ tempGoal' = DefaultGoal

NoCall == [fn |-> "none", text |-> NullStr, image |-> NullStr, phase |-> "none",
           message |-> "", parts |-> <<>>, url |-> NoUrl]

\* App after its mount effects, given what localStorage holds: the load
\* effect sets the history list, the save effect writes it back (App.tsx:27-69)
InitRest(prefsText) ==
    /\ view = "HOME"
    /\ currentId = NullId
    /\ textInput = ""
    /\ selectedImage = NoImage
    /\ isAnalyzing = FALSE
    /\ error = NullStr
    /\ quickViewItem = NoItem
    /\ isQuickAnalyzing = FALSE
    /\ sourceLang = "Auto"
    /\ targetLang = "Chinese"
    /\ showStoryMode = FALSE
    /\ generatingImage = [s \in Slots |-> FALSE]
    /\ lastUrl = "none"
    /\ preferences = NoPrefs
    /\ isLoading = FALSE
    /\ lesson = <<>>
    /\ currentIndex = 0
    /\ completed = FALSE
    /\ selectedOption = NoOption
    /\ isCorrect = NullStr
    /\ tempLevel = "B1"
    /\ tempGoal = DefaultGoal
    /\ storyGen = StoryFresh
    /\ audio = {}
    /\ chat = [s \in Slots |-> ChatFresh]
    /\ storedPrefs = prefsText
    /\ crashed = FALSE
    /\ now = ClockStart
    /\ pending = EmptyBag
    /\ gwCall = NoCall
    /\ clockRead = "no"

InitLoaded(historyText, prefsText) ==
    /\ InitRest(prefsText)
    /\ history = LoadHistory(historyText)
    /\ storedHistory = StringifyHistory(history)
    /\ mount = Mounted

\* the first visit: nothing stored
Init == InitLoaded(NoHistoryText, NoPrefsText)

\* --------------------------------------------------- component life cycle
\* What a step does to the components it does not address: DailyStudy is
\* reset when the view leaves DAILY_STUDY and starts afresh when it enters;
\* an AnalysisCard that is no longer rendered loses its state; requests of
\* unmounted instances are orphaned.  Last conjunct of every App action.
DailyFollows ==
    IF (view = "DAILY_STUDY") = (view' = "DAILY_STUDY") THEN UNCHANGED dailyVars
    ELSE IF view' = "DAILY_STUDY" THEN DailyFresh(LoadPrefs(storedPrefs))
    ELSE DailyFresh(NoPrefs)

StoryFollows ==
    IF StoryMounted(view, showStoryMode) /\ ~StoryMounted(view', showStoryMode')
    THEN /\ storyGen' = StoryFresh
         /\ audio' = Released(StopNode(audio, storyGen.sourceNodeRef))
    ELSE UNCHANGED <<storyGen, audio>>

\* The save effect writes the list after every render that changed it
\* (App.tsx:66-69).  DailyStudy's mount effect throws on a stored text that
\* does not parse; nothing catches it, and React unmounts the root.
FinishAll(pendingNext, genNext, urlSeen, chatNext) ==
    LET after(s) == CardMounted(s, view', history', currentId', quickViewItem', isQuickAnalyzing')
        dead == {s \in Slots : MountedNow(s) /\ ~after(s)}
        dailyDead == view = "DAILY_STUDY" /\ view' # "DAILY_STUDY"
        storyDead == StoryMounted(view, showStoryMode) /\ ~StoryMounted(view', showStoryMode')
    IN /\ ~crashed
       /\ MountDone
       /\ UNCHANGED mount
       /\ generatingImage' = [s \in Slots |-> IF after(s) THEN genNext[s] ELSE FALSE]
       /\ chat' = [s \in Slots |-> IF after(s) THEN chatNext[s] ELSE ChatFresh]
       /\ pending' = Orphan(pendingNext, dead, dailyDead, storyDead)
       /\ lastUrl' = urlSeen
       /\ StoryFollows
       /\ storedHistory' = StringifyHistory(history')
       /\ crashed' = (view # "DAILY_STUDY" /\ view' = "DAILY_STUDY" /\ LoadPrefsThrows(storedPrefs))

FinishWith(pendingNext, genNext, urlSeen) == FinishAll(pendingNext, genNext, urlSeen, chat)

Finish(pendingNext, genNext) == FinishWith(pendingNext, genNext, "none")

\* ------------------------------------------------------------ App handlers
\* a HistoryItem as the handlers build it: the id from one reading of
\* Date.now(), the timestamp from the next (App.tsx:104-109)
NewItem(t1, t2, data, favorite) ==
    [id |-> toString(t1), timestamp |-> t2, data |-> data, isFavorite |-> favorite,
     generatedImageUrl |-> NoUrl]

\* variant of the insertion: at the tail
PrependAtTail(item, h) == Append(h, item)

\* prev => [newItem, ...prev] (App.tsx:111, 149, 167)
Prepend(item, h) == <<item>> \o h

\* variant of the toggle: sets the favourite instead of negating it
ToggleItemSetsTrue(item, id) ==
    IF item.id = id THEN [item EXCEPT !.isFavorite = TRUE] ELSE item

\* prev.map(item => item.id === id ? {...item, isFavorite: !item.isFavorite} : item)
ToggleItem(item, id) ==
    IF item.id = id THEN [item EXCEPT !.isFavorite = ~item.isFavorite] ELSE item

ToggledList(h, id) == [i \in DOMAIN h |-> ToggleItem(h[i], id)]

\* variant of the image patch: writes the item back without its favourite
WithImageOnly(h, id, url) ==
    [i \in DOMAIN h |->
        IF h[i].id = id THEN [h[i] EXCEPT !.generatedImageUrl = url, !.isFavorite = FALSE]
        ELSE h[i]]

\* prev.map(item => item.id === id ? {...item, generatedImageUrl: url} : item)
WithImage(h, id, url) ==
    [i \in DOMAIN h |-> IF h[i].id = id THEN [h[i] EXCEPT !.generatedImageUrl = url] ELSE h[i]]

\* The two readings of Date.now() a new item takes.  The clock does not run
\* backwards.  A reading equals the last one only when nothing happened in
\* between and the two steps can share a millisecond: two continuations, or a
\* continuation and a click, not two clicks.
Readings(by) ==
    {<<t1, t2>> \in (now..MaxClock) \X (now..MaxClock) :
        /\ t2 \in {t1, t1 + 1}
        /\ t1 = now => (clockRead # "no" /\ ~(by = "click" /\ clockRead = "click"))}

NoReading == now' = now /\ clockRead' = "no"

\* Layout's onNavigate (App.tsx:364)
OnNavigate(v) ==
    /\ view' = v
    /\ showStoryMode' = FALSE
    /\ UNCHANGED <<history, currentId, textInput, selectedImage, isAnalyzing, error,
                   quickViewItem, isQuickAnalyzing, sourceLang, targetLang>>
    /\ DailyFollows
    /\ UNCHANGED <<storedPrefs, gwCall>>
    /\ NoReading
    /\ Finish(pending, generatingImage)

\* the textarea's onChange (App.tsx:245)
SetTextInput(t) ==
    /\ view = "HOME"
    /\ t # textInput
    /\ textInput' = t
    /\ UNCHANGED <<view, history, currentId, selectedImage, isAnalyzing, error,
                   quickViewItem, isQuickAnalyzing, sourceLang, targetLang, showStoryMode>>
    /\ UNCHANGED <<dailyVars, storedPrefs, gwCall>>
    /\ NoReading
    /\ Finish(pending, generatingImage)

\* handleImageUpload with the FileReader's onloadend (App.tsx:76-86)
HandleImageUpload(img) ==
    /\ view = "HOME"
    /\ selectedImage' = img
    /\ UNCHANGED <<view, history, currentId, textInput, isAnalyzing, error,
                   quickViewItem, isQuickAnalyzing, sourceLang, targetLang, showStoryMode>>
    /\ UNCHANGED <<dailyVars, storedPrefs, gwCall>>
    /\ NoReading
    /\ Finish(pending, generatingImage)

\* the preview's remove button (App.tsx:248-259)
ClearImage ==
    /\ view = "HOME"
    /\ selectedImage # NoImage
    /\ selectedImage' = NoImage
    /\ UNCHANGED <<view, history, currentId, textInput, isAnalyzing, error,
                   quickViewItem, isQuickAnalyzing, sourceLang, targetLang, showStoryMode>>
    /\ UNCHANGED <<dailyVars, storedPrefs, gwCall>>
    /\ NoReading
    /\ Finish(pending, generatingImage)

\* the Analyze button's disabled prop (App.tsx:275)
AnalyzeDisabled == (~Truthy(textInput) /\ ~selectedImage.present) \/ isAnalyzing

\* selectedImage ? selectedImage.split(',')[1] : null (App.tsx:95)
Base64Data(img) == IF img.present THEN img.payload ELSE NullStr

\* handleAnalyze up to the await (App.tsx:88-102); when analyzeContent throws
\* before the provider call, also the catch and finally (App.tsx:121-125)
HandleAnalyze ==
    /\ view = "HOME"
    /\ ButtonEnabled(AnalyzeDisabled, isAnalyzing)
    /\ ~(~Truthy(textInput) /\ ~selectedImage.present)
    /\ LET call == AnalyzeContentParts(textInput, Base64Data(selectedImage), sourceLang, targetLang)
       IN IF call.threw
          THEN /\ isAnalyzing' = FALSE
               /\ error' = ErrAnalyze
               /\ UNCHANGED <<view, history, currentId, textInput, selectedImage,
                              quickViewItem, isQuickAnalyzing, sourceLang, targetLang, showStoryMode>>
               /\ UNCHANGED <<dailyVars, storedPrefs, gwCall>>
               /\ NoReading
               /\ Finish(pending, generatingImage)
          ELSE /\ isAnalyzing' = TRUE
               /\ error' = NullStr
               /\ UNCHANGED <<view, history, currentId, textInput, selectedImage,
                              quickViewItem, isQuickAnalyzing, sourceLang, targetLang, showStoryMode>>
               /\ UNCHANGED <<dailyVars, storedPrefs, gwCall>>
               /\ NoReading
               /\ Finish(pending (+) One([Request("main") EXCEPT
                                            !.data = AnalysisOf(call.parts)]),
                         generatingImage)

\* handleAnalyze from the await on (App.tsx:97-125)
AnalyzeResponse(r, outcome) ==
    /\ r.kind = "main"
    /\ BagIn(r, pending)
    /\ LET result == AnalyzeContentResult(outcome, r.data)
       IN IF result.threw
          THEN /\ error' = ErrAnalyze
               /\ isAnalyzing' = FALSE
               /\ UNCHANGED <<view, history, currentId, textInput, selectedImage,
                              quickViewItem, isQuickAnalyzing, sourceLang, targetLang, showStoryMode>>
               /\ UNCHANGED <<dailyVars, storedPrefs, gwCall>>
               /\ NoReading
               /\ Finish(pending (-) One(r), generatingImage)
          ELSE /\ Len(history) < MaxHistory
               /\ \E tt \in Readings("response") :
                    LET newItem == NewItem(tt[1], tt[2], result.data, FALSE)
                    IN /\ history' = Prepend(newItem, history)
                       /\ currentId' = newItem.id
                       /\ now' = tt[2]
                       /\ clockRead' = "response"
               /\ view' = "ANALYSIS"
               /\ textInput' = ""
               /\ selectedImage' = NoImage
               /\ showStoryMode' = FALSE
               /\ isAnalyzing' = FALSE
               /\ UNCHANGED <<error, quickViewItem, isQuickAnalyzing, sourceLang, targetLang>>
               /\ DailyFollows
               /\ UNCHANGED <<storedPrefs, gwCall>>
               /\ Finish(pending (-) One(r), generatingImage)

\* handleQuickLookup from the await on (App.tsx:135-156)
QuickResponse(r, outcome) ==
    /\ r.kind = "quick"
    /\ BagIn(r, pending)
    /\ LET result == AnalyzeContentResult(outcome, r.data)
       IN IF result.threw
          THEN /\ isQuickAnalyzing' = FALSE
               /\ UNCHANGED <<view, history, currentId, textInput, selectedImage, isAnalyzing,
                              error, quickViewItem, sourceLang, targetLang, showStoryMode>>
               /\ UNCHANGED <<dailyVars, storedPrefs, gwCall>>
               /\ NoReading
               /\ Finish(pending (-) One(r), generatingImage)
          ELSE /\ Len(history) < MaxHistory
               /\ \E tt \in Readings("response") :
                    LET newItem == NewItem(tt[1], tt[2], result.data, FALSE)
                    IN /\ history' = Prepend(newItem, history)
                       /\ quickViewItem' = newItem
                       /\ now' = tt[2]
                       /\ clockRead' = "response"
               /\ isQuickAnalyzing' = FALSE
               /\ UNCHANGED <<view, currentId, textInput, selectedImage, isAnalyzing,
                              error, sourceLang, targetLang, showStoryMode>>
               /\ UNCHANGED <<dailyVars, storedPrefs, gwCall>>
               /\ Finish(pending (-) One(r), generatingImage)

\* toggleFavorite, called by the star button of a rendered card with the id
\* of the card's item (App.tsx:170-178, part_001:47)
ToggleFavorite(slot) ==
    /\ MountedNow(slot)
    /\ LET id == CardItem(slot).id
       IN /\ history' = ToggledList(history, id)
          /\ quickViewItem' =
                IF quickViewItem # NoItem /\ quickViewItem.id = id
                THEN [quickViewItem EXCEPT !.isFavorite = ~quickViewItem.isFavorite]
                ELSE quickViewItem
    /\ UNCHANGED <<view, currentId, textInput, selectedImage, isAnalyzing, error,
                   isQuickAnalyzing, sourceLang, targetLang, showStoryMode>>
    /\ UNCHANGED <<dailyVars, storedPrefs, gwCall>>
    /\ NoReading
    /\ Finish(pending, generatingImage)

\* handleGenerateImage up to the await, called by the generate button, which
\* is rendered while the card's item has no image (part_001:25-29, 99-114).
\* The closure holds the card's item and the updateGeneratedImage of the
\* render it was created in, hence that render's quickViewItem.
HandleGenerateImage(slot) ==
    /\ MountedNow(slot)
    /\ CardItem(slot).generatedImageUrl = NoUrl
    /\ ButtonEnabled(FALSE, generatingImage[slot])
    /\ Outstanding(pending, "image") < MaxPendingImage
    /\ UNCHANGED <<appVars, dailyVars, storedPrefs, gwCall>>
    /\ NoReading
    /\ Finish(pending (+) One([Request("image") EXCEPT
                                 !.id = CardItem(slot).id, !.slot = slot,
                                 !.qvId = quickViewItem.id]),
              [generatingImage EXCEPT ![slot] = TRUE])

\* updateGeneratedImage as the closure of a request calls it (App.tsx:180-188)
UpdateGeneratedImage(id, url, closureQvId) ==
    /\ history' = WithImage(history, id, url)
    /\ quickViewItem' =
          IF closureQvId # NullId /\ closureQvId = id
          THEN IF quickViewItem # NoItem
               THEN [quickViewItem EXCEPT !.generatedImageUrl = url]
               ELSE NoItem
          ELSE quickViewItem

\* handleGenerateImage from the await on (part_001:29-35)
ImageResponse(r, outcome) ==
    /\ r.kind = "image"
    /\ BagIn(r, pending)
    /\ LET url == GenerateMnemonicImage(outcome)
       IN IF url # NoUrl
          THEN /\ UpdateGeneratedImage(r.id, url, r.qvId)
          ELSE /\ UNCHANGED <<history, quickViewItem>>
    /\ UNCHANGED <<view, currentId, textInput, selectedImage, isAnalyzing, error,
                   isQuickAnalyzing, sourceLang, targetLang, showStoryMode>>
    /\ UNCHANGED <<dailyVars, storedPrefs, gwCall>>
    /\ NoReading
    /\ FinishWith(pending (-) One(r),
                  IF r.alive THEN [generatingImage EXCEPT ![r.slot] = FALSE] ELSE generatingImage,
                  IF GenerateMnemonicImage(outcome) # NoUrl THEN "url" ELSE "empty")

\* a card's onBack (App.tsx:372, 397)
CardBack(slot) ==
    /\ MountedNow(slot)
    /\ IF slot = "main"
       THEN view' = "HOME" /\ UNCHANGED quickViewItem
       ELSE quickViewItem' = NoItem /\ UNCHANGED view
    /\ UNCHANGED <<history, currentId, textInput, selectedImage, isAnalyzing, error,
                   isQuickAnalyzing, sourceLang, targetLang, showStoryMode>>
    /\ UNCHANGED <<dailyVars, storedPrefs, gwCall>>
    /\ NoReading
    /\ Finish(pending, generatingImage)

\* the modal's onClose (App.tsx:388)
ModalClose ==
    /\ ModalOpen
    /\ quickViewItem' = NoItem
    /\ isQuickAnalyzing' = FALSE
    /\ UNCHANGED <<view, history, currentId, textInput, selectedImage, isAnalyzing, error,
                   sourceLang, targetLang, showStoryMode>>
    /\ UNCHANGED <<dailyVars, storedPrefs, gwCall>>
    /\ NoReading
    /\ Finish(pending, generatingImage)

\* variant of the click on a row: the view changes, the current id stays
HistoryClickKeepsId(i) ==
    /\ view \in {"HISTORY", "FAVORITES"}
    /\ PointerReachesPage
    /\ ~(showStoryMode /\ view = "FAVORITES")
    /\ i \in DOMAIN history
    /\ view = "FAVORITES" => history[i].isFavorite
    /\ view' = "ANALYSIS"
    /\ UNCHANGED <<history, currentId, textInput, selectedImage, isAnalyzing, error, quickViewItem,
                   isQuickAnalyzing, sourceLang, targetLang, showStoryMode>>
    /\ UNCHANGED <<dailyVars, storedPrefs, gwCall>>
    /\ NoReading
    /\ Finish(pending, generatingImage)

\* a row of the history or favourites list is clicked (App.tsx:293-336)
HistoryClick(i) ==
    /\ view \in {"HISTORY", "FAVORITES"}
    /\ PointerReachesPage
    /\ ~(showStoryMode /\ view = "FAVORITES")
    /\ i \in DOMAIN history
    /\ view = "FAVORITES" => history[i].isFavorite
    /\ currentId' = history[i].id
    /\ view' = "ANALYSIS"
    /\ UNCHANGED <<history, textInput, selectedImage, isAnalyzing, error, quickViewItem,
                   isQuickAnalyzing, sourceLang, targetLang, showStoryMode>>
    /\ UNCHANGED <<dailyVars, storedPrefs, gwCall>>
    /\ NoReading
    /\ Finish(pending, generatingImage)

\* the story mode button of the vocabulary book (App.tsx:304-313)
ToggleStoryMode ==
    /\ view = "FAVORITES"
    /\ \E i \in DOMAIN history : history[i].isFavorite
    /\ showStoryMode' = ~showStoryMode
    /\ UNCHANGED <<view, history, currentId, textInput, selectedImage, isAnalyzing, error,
                   quickViewItem, isQuickAnalyzing, sourceLang, targetLang>>
    /\ UNCHANGED <<dailyVars, storedPrefs, gwCall>>
    /\ NoReading
    /\ Finish(pending, generatingImage)

\* the languages of the two selects, three of the ten (App.tsx:13-24); the
\* source select has the option Auto besides (App.tsx:216)
LANGUAGES == {"English", "Chinese", "Japanese"}
SourceOptions == {"Auto"} \cup LANGUAGES

\* the selects' onChange (App.tsx:213, 233)
SetSourceLang(l) ==
    /\ view = "HOME"
    /\ l # sourceLang
    /\ sourceLang' = l
    /\ UNCHANGED <<view, history, currentId, textInput, selectedImage, isAnalyzing, error,
                   quickViewItem, isQuickAnalyzing, targetLang, showStoryMode>>
    /\ UNCHANGED <<dailyVars, storedPrefs, gwCall>>
    /\ NoReading
    /\ Finish(pending, generatingImage)

SetTargetLang(l) ==
    /\ view = "HOME"
    /\ l # targetLang
    /\ targetLang' = l
    /\ UNCHANGED <<view, history, currentId, textInput, selectedImage, isAnalyzing, error,
                   quickViewItem, isQuickAnalyzing, sourceLang, showStoryMode>>
    /\ UNCHANGED <<dailyVars, storedPrefs, gwCall>>
    /\ NoReading
    /\ Finish(pending, generatingImage)

\* variant of swapLanguages: without the early return
SwapLanguagesAlways(src, tgt) == <<tgt, src>>

\* swapLanguages: the new source and target (App.tsx:190-194)
SwapLanguages(src, tgt) == IF src = "Auto" THEN <<src, tgt>> ELSE <<tgt, src>>

\* the swap button, disabled while the source is Auto (App.tsx:221-227)
HandleSwapLanguages ==
    /\ view = "HOME"
    /\ sourceLang # "Auto"
    /\ sourceLang' = SwapLanguages(sourceLang, targetLang)[1]
    /\ targetLang' = SwapLanguages(sourceLang, targetLang)[2]
    /\ UNCHANGED <<view, history, currentId, textInput, selectedImage, isAnalyzing, error,
                   quickViewItem, isQuickAnalyzing, showStoryMode>>
    /\ UNCHANGED <<dailyVars, storedPrefs, gwCall>>
    /\ NoReading
    /\ Finish(pending, generatingImage)

\* ----------------------------------------------------- DailyStudy handlers
\* the items a lesson response can hold: a sentence, or a vocabulary quiz
\* with its correct option
\* The provider's text is parsed and cast, not validated (part_000:348): an
\* item has the id the provider gave it (<<>>: none), and a quiz has
\* NumOptions options and any correctOptionIndex.
LessonItems ==
    {[type |-> "sentence", correctOptionIndex |-> NoOption, id |-> d] : d \in {<<>>, <<"p">>}}
    \cup {[type |-> "vocabulary", correctOptionIndex |-> c, id |-> d] :
             c \in 0..NumOptions, d \in {<<>>, <<"p">>}}

Lessons == SeqsUpTo(LessonItems, MaxLesson)

\* What Math.random() returns, a number of [0, 1), as the digits of its
\* fraction in base 36: zero, a half, and two numbers that differ in the
\* tenth digit only.
Randoms ==
    {<<>>, <<"i">>, [k \in 1..IdLength |-> "a"] \o <<"b">>, [k \in 1..IdLength |-> "a"] \o <<"c">>}

\* Number.prototype.toString(36) of such a number
ToString36(x) == IF x = <<>> THEN <<"0">> ELSE <<"0", ".">> \o x

\* String.prototype.substr(start, length)
Substr(s, start, length) == SubSeq(s, start + 1, Min(Len(s), start + length))

\* Math.random().toString(36).substr(2, 9) (part_000:351)
RandomId(x) == Substr(ToString36(x), 2, IdLength)

\* generateDailyLesson's post-processing of the parsed array, given the
\* numbers Math.random() returns: {...item, id: ...} (part_000:348-352)
GenerateDailyLesson(parsed, randoms) ==
    [i \in DOMAIN parsed |-> [parsed[i] EXCEPT !.id = RandomId(randoms[i])]]

RandomSeqs == [1..MaxLesson -> Randoms]

\* const item = lesson[currentIndex] (part_001:387)
LessonItem == lesson[currentIndex + 1]

\* the level buttons and the goal slider of the settings form (part_001:296, 322)
SetTempLevel(l) ==
    /\ DailyState = "no-preferences"
    /\ l # tempLevel
    /\ tempLevel' = l
    /\ UNCHANGED <<preferences, isLoading, lesson, currentIndex, completed, selectedOption,
                   isCorrect, tempGoal>>
    /\ UNCHANGED <<appVars, storedPrefs, gwCall>>
    /\ NoReading
    /\ Finish(pending, generatingImage)

SetTempGoal(g) ==
    /\ DailyState = "no-preferences"
    /\ g # tempGoal
    /\ tempGoal' = g
    /\ UNCHANGED <<preferences, isLoading, lesson, currentIndex, completed, selectedOption,
                   isCorrect, tempLevel>>
    /\ UNCHANGED <<appVars, storedPrefs, gwCall>>
    /\ NoReading
    /\ Finish(pending, generatingImage)

\* savePreferences (part_001:206-215)
NewPrefs(prefs, level, goal) ==
    [level |-> level, dailyGoal |-> goal,
     streak |-> IF prefs # NoPrefs THEN prefs.streak ELSE 0,
     lastStudyDate |-> IF prefs # NoPrefs THEN prefs.lastStudyDate ELSE ""]

SavePreferences ==
    /\ DailyState = "no-preferences"
    /\ preferences' = NewPrefs(preferences, tempLevel, tempGoal)
    /\ storedPrefs' = StringifyPrefs(preferences')
    /\ UNCHANGED <<isLoading, lesson, currentIndex, completed, selectedOption, isCorrect,
                   tempLevel, tempGoal>>
    /\ UNCHANGED <<appVars, gwCall>>
    /\ NoReading
    /\ Finish(pending, generatingImage)

\* the Adjust Level button of the dashboard (part_001:361)
AdjustLevel ==
    /\ DailyState = "dashboard"
    /\ preferences' = NoPrefs
    /\ UNCHANGED <<isLoading, lesson, currentIndex, completed, selectedOption, isCorrect,
                   tempLevel, tempGoal>>
    /\ UNCHANGED <<appVars, storedPrefs, gwCall>>
    /\ NoReading
    /\ Finish(pending, generatingImage)

\* startDailySession up to the await (part_001:217-227)
StartDailySession ==
    /\ DailyState = "dashboard"
    /\ ButtonEnabled(FALSE, isLoading)
    /\ preferences # NoPrefs
    /\ Outstanding(pending, "lesson") < MaxPendingLesson
    /\ isLoading' = TRUE
    /\ UNCHANGED <<preferences, lesson, currentIndex, completed, selectedOption, isCorrect,
                   tempLevel, tempGoal>>
    /\ UNCHANGED <<appVars, storedPrefs, gwCall>>
    /\ NoReading
    /\ Finish(pending (+) One([Request("lesson") EXCEPT
                                 !.level = preferences.level, !.count = preferences.dailyGoal]),
              generatingImage)

\* startDailySession from the await on (part_001:227-237); the setters of an
\* unmounted DailyStudy do nothing
LessonResponse(r, outcome, newLesson) ==
    /\ r.kind = "lesson"
    /\ BagIn(r, pending)
    /\ IF ~r.alive
       THEN /\ UNCHANGED dailyVars
       ELSE IF outcome = "json"
       THEN /\ lesson' = newLesson
            /\ currentIndex' = 0
            /\ completed' = FALSE
            /\ selectedOption' = NoOption
            /\ isCorrect' = NullStr
            /\ isLoading' = FALSE
            /\ UNCHANGED <<preferences, tempLevel, tempGoal>>
       ELSE /\ isLoading' = FALSE
            /\ UNCHANGED <<preferences, lesson, currentIndex, completed, selectedOption,
                           isCorrect, tempLevel, tempGoal>>
    /\ UNCHANGED <<appVars, storedPrefs, gwCall>>
    /\ NoReading
    /\ Finish(pending (-) One(r), generatingImage)

\* variant of handleNext: skips an item
HandleNextSkips ==
    /\ DailyState = "in-session"
    /\ LessonItem.type = "vocabulary" => selectedOption # NoOption
    /\ IF currentIndex < Len(lesson) - 1
       THEN /\ currentIndex' = currentIndex + 2
            /\ selectedOption' = NoOption
            /\ isCorrect' = NullStr
            /\ UNCHANGED completed
       ELSE /\ completed' = TRUE
            /\ UNCHANGED <<currentIndex, selectedOption, isCorrect>>
    /\ UNCHANGED <<preferences, isLoading, lesson, tempLevel, tempGoal>>
    /\ UNCHANGED <<appVars, storedPrefs, gwCall>>
    /\ NoReading
    /\ Finish(pending, generatingImage)

\* handleNext, called by the Next button, which a vocabulary item shows once
\* an option is selected (part_001:240-249, 482, 546)
HandleNext ==
    /\ DailyState = "in-session"
    /\ LessonItem.type = "vocabulary" => selectedOption # NoOption
    /\ IF currentIndex < Len(lesson) - 1
       THEN /\ currentIndex' = currentIndex + 1
            /\ selectedOption' = NoOption
            /\ isCorrect' = NullStr
            /\ UNCHANGED completed
       ELSE /\ completed' = TRUE
            /\ UNCHANGED <<currentIndex, selectedOption, isCorrect>>
    /\ UNCHANGED <<preferences, isLoading, lesson, tempLevel, tempGoal>>
    /\ UNCHANGED <<appVars, storedPrefs, gwCall>>
    /\ NoReading
    /\ Finish(pending, generatingImage)

\* variant of handleQuizAnswer: without the early return
HandleQuizAnswerAgain(index) ==
    /\ DailyState = "in-session"
    /\ LessonItem.type = "vocabulary"
    /\ selectedOption' = index
    /\ isCorrect' = IF index = LessonItem.correctOptionIndex THEN "true" ELSE "false"
    /\ UNCHANGED <<preferences, isLoading, lesson, currentIndex, completed, tempLevel, tempGoal>>
    /\ UNCHANGED <<appVars, storedPrefs, gwCall>>
    /\ NoReading
    /\ Finish(pending, generatingImage)

\* handleQuizAnswer, called by an option button (part_001:251-255, 524-528)
HandleQuizAnswer(index) ==
    /\ DailyState = "in-session"
    /\ LessonItem.type = "vocabulary"
    /\ selectedOption = NoOption
    /\ selectedOption' = index
    /\ isCorrect' = IF index = LessonItem.correctOptionIndex THEN "true" ELSE "false"
    /\ UNCHANGED <<preferences, isLoading, lesson, currentIndex, completed, tempLevel, tempGoal>>
    /\ UNCHANGED <<appVars, storedPrefs, gwCall>>
    /\ NoReading
    /\ Finish(pending, generatingImage)

\* the Back to Dashboard button of the summary (part_001:379)
BackToDashboard ==
    /\ DailyState = "summary"
    /\ lesson' = <<>>
    /\ UNCHANGED <<preferences, isLoading, currentIndex, completed, selectedOption, isCorrect,
                   tempLevel, tempGoal>>
    /\ UNCHANGED <<appVars, storedPrefs, gwCall>>
    /\ NoReading
    /\ Finish(pending, generatingImage)

\* handleSaveDailyItem, called by the Save button of a sentence item
\* (App.tsx:160-168, part_001:468-481).  Two clicks are more than a
\* millisecond apart: the reading is later than the last one.
HandleSaveDailyItem ==
    /\ DailyState = "in-session"
    /\ LessonItem.type = "sentence"
    /\ Len(history) < MaxHistory
    /\ \E tt \in Readings("click") :
          /\ history' = Prepend(NewItem(tt[1], tt[2], "sentence", TRUE), history)
          /\ now' = tt[2]
          /\ clockRead' = "click"
    /\ UNCHANGED <<view, currentId, textInput, selectedImage, isAnalyzing, error,
                   quickViewItem, isQuickAnalyzing, sourceLang, targetLang, showStoryMode>>
    /\ UNCHANGED <<dailyVars, storedPrefs, gwCall>>
    /\ Finish(pending, generatingImage)

\* handleQuickLookup up to the await, called by a click on a word of the
\* sentence shown (App.tsx:129-140, part_001:264-277)
HandleQuickLookup(word) ==
    /\ DailyState = "in-session"
    /\ LessonItem.type = "sentence"
    /\ PointerReachesPage
    /\ Truthy(word)
    /\ Outstanding(pending, "quick") < MaxPendingQuick
    /\ quickViewItem' = NoItem
    /\ LET call == AnalyzeContentParts(word, NullStr,
                                       IF sourceLang = "Auto" THEN "English" ELSE sourceLang,
                                       targetLang)
       IN IF call.threw
          THEN /\ isQuickAnalyzing' = FALSE
               /\ UNCHANGED <<view, history, currentId, textInput, selectedImage, isAnalyzing,
                              error, sourceLang, targetLang, showStoryMode>>
               /\ UNCHANGED <<dailyVars, storedPrefs, gwCall>>
               /\ NoReading
               /\ Finish(pending, generatingImage)
          ELSE /\ isQuickAnalyzing' = TRUE
               /\ UNCHANGED <<view, history, currentId, textInput, selectedImage, isAnalyzing,
                              error, sourceLang, targetLang, showStoryMode>>
               /\ UNCHANGED <<dailyVars, storedPrefs, gwCall>>
               /\ NoReading
               /\ Finish(pending (+) One([Request("quick") EXCEPT
                                            !.data = AnalysisOf(call.parts)]),
                         generatingImage)

\* ----------------------------------------------------- ChatWidget handlers
\* what the user types or picks from the suggestions
ChatInputs == {<<>>, <<" ">>, <<"q">>}

Fallback == <<"I couldn't generate a response.">>

\* last conjunct of the ChatWidget actions: App, DailyStudy and the cards'
\* own state stay
FinishChat(pendingNext, chatNext) ==
    /\ UNCHANGED <<appVars, dailyVars, storedPrefs, gwCall>>
    /\ NoReading
    /\ FinishAll(pendingNext, generatingImage, "none", chatNext)

\* the input's onChange; the input is disabled while a reply is awaited
\* (ChatWidget.tsx:120-128)
SetChatInput(slot, t) ==
    /\ MountedNow(slot)
    /\ ~chat[slot].isLoading
    /\ t # chat[slot].input
    /\ FinishChat(pending, [chat EXCEPT ![slot].input = t])

\* handleSend up to the await, called by Enter in the input or by the send
\* button (ChatWidget.tsx:23-38, 126-131).  The request holds what the
\* closure passes to sendChatMessage: the messages and the context of the
\* render the handler was created in.
HandleSend(slot) ==
    /\ MountedNow(slot)
    /\ \/ ~chat[slot].isLoading
       \/ ButtonEnabled(Trim(chat[slot].input) = <<>> \/ chat[slot].isLoading, FALSE)
    /\ Trim(chat[slot].input) # <<>>
    /\ Len(chat[slot].messages) + 2 <= MaxMessages
    /\ Outstanding(pending, "chat") < MaxPendingChat
    /\ LET userMsg == [role |-> "user", text |-> chat[slot].input,
                       context |-> Context(CardItem(slot))]
       IN FinishChat(pending (+) One([Request("chat") EXCEPT
                                        !.slot = slot, !.id = CardItem(slot).id,
                                        !.data = CardItem(slot).data,
                                        !.turns = chat[slot].messages]),
                     [chat EXCEPT ![slot].messages = Append(@, userMsg),
                                  ![slot].input = <<>>,
                                  ![slot].isLoading = TRUE])

\* what the provider does with a chat turn: a reply, a response without
\* text, an error
ChatOutcomes == {"text", "empty", "error"}

\* sendChatMessage from the provider's answer on (part_000:174-175)
SendChatMessage(outcome) == IF outcome = "text" THEN <<"reply">> ELSE Fallback

\* variant of the continuation of handleSend: without the finally
ChatResponseNoFinally(r, outcome) ==
    /\ r.kind = "chat"
    /\ BagIn(r, pending)
    /\ LET botMsg == [role |-> "model", text |-> SendChatMessage(outcome),
                      context |-> <<r.id, r.data>>]
       IN FinishChat(pending (-) One(r),
                     IF ~r.alive \/ outcome = "error" THEN chat
                     ELSE [chat EXCEPT ![r.slot].messages = Append(@, botMsg),
                                       ![r.slot].isLoading = FALSE])

\* handleSend from the await on (ChatWidget.tsx:38-53); the setters of an
\* unmounted ChatWidget do nothing
ChatResponse(r, outcome) ==
    /\ r.kind = "chat"
    /\ BagIn(r, pending)
    /\ LET botMsg == [role |-> "model", text |-> SendChatMessage(outcome),
                      context |-> <<r.id, r.data>>]
       IN FinishChat(pending (-) One(r),
                     IF ~r.alive THEN chat
                     ELSE IF outcome = "error" THEN [chat EXCEPT ![r.slot].isLoading = FALSE]
                     ELSE [chat EXCEPT ![r.slot].messages = Append(@, botMsg),
                                       ![r.slot].isLoading = FALSE])

\* ------------------------------------------------- StoryGenerator handlers
\* last conjunct of the StoryGenerator actions: App and its cards stay
FinishStory(pendingNext) ==
    /\ ~crashed
    /\ pending' = pendingNext
    /\ lastUrl' = "none"
    /\ MountDone
    /\ UNCHANGED <<generatingImage, chat, storedHistory, crashed, mount>>

\* the story a response brings, other than the one shown
NewStory(s) == IF s = 1 THEN 2 ELSE 1

\* ctx.createBufferSource(): a node that is none of those around, named by
\* the least number free
NewNode(A, ref) ==
    LET used == {n.id : n \in A} \cup {ref}
    IN CHOOSE k \in 1..(Cardinality(used) + 1) :
          k \notin used /\ \A j \in 1..(k - 1) : j \in used

\* the story, its Listen / Stop button and its words are rendered
\* (StoryGenerator.tsx:201)
StoryShown ==
    /\ StoryMounted(view, showStoryMode)
    /\ storyGen.story # NoStory
    /\ ~storyGen.isLoading

\* stopAudio (StoryGenerator.tsx:128-134)
StopAudio(sg) == [sg EXCEPT !.sourceNodeRef = NoNode, !.isPlaying = FALSE]

\* playFromBase64 with audio data that decodes: a new source node is
\* started, the ref and the playing flag are set (StoryGenerator.tsx:80-120)
PlayFromBase64(sg, A) == [sg EXCEPT !.sourceNodeRef = NewNode(A, sg.sourceNodeRef), !.isPlaying = TRUE]
Started(sg, A, owned) ==
    A \cup {[id |-> NewNode(A, sg.sourceNodeRef), state |-> "playing", owned |-> owned]}

\* handleGenerate up to the await (StoryGenerator.tsx:41-48)
HandleGenerate ==
    /\ StoryMounted(view, showStoryMode)
    /\ StoryWords # {}
    /\ ButtonEnabled(FALSE, storyGen.isLoading)
    /\ Outstanding(pending, "story") < MaxPendingStory
    /\ storyGen' = [StopAudio(storyGen) EXCEPT !.isLoading = TRUE, !.audioBase64 = NoStory]
    /\ audio' = StopNode(audio, storyGen.sourceNodeRef)
    /\ UNCHANGED <<appVars, dailyVars, storedPrefs, gwCall>>
    /\ NoReading
    /\ FinishStory(pending (+) One(Request("story")))

\* handleGenerate from the await on (StoryGenerator.tsx:48-54); the setters
\* of an unmounted StoryGenerator do nothing
StoryResponse(r, outcome) ==
    /\ r.kind = "story"
    /\ BagIn(r, pending)
    /\ storyGen' =
          IF ~r.alive THEN storyGen
          ELSE IF outcome = "json"
          THEN [storyGen EXCEPT !.story = NewStory(storyGen.story), !.isLoading = FALSE]
          ELSE [storyGen EXCEPT !.isLoading = FALSE]
    /\ UNCHANGED <<appVars, dailyVars, storedPrefs, gwCall, audio>>
    /\ NoReading
    /\ FinishStory(pending (-) One(r))

\* playAudio up to the await, called by the Listen button, which is shown
\* while isPlaying is false and is disabled while the voice is loading
\* (StoryGenerator.tsx:57-68, 214-221)
PlayAudio ==
    /\ StoryShown
    /\ ~storyGen.isPlaying
    /\ ~storyGen.isGeneratingAudio
    /\ IF storyGen.audioBase64 # NoStory
       THEN /\ Cardinality(audio) < MaxNodes
            /\ storyGen' = PlayFromBase64(storyGen, audio)
            /\ audio' = Started(storyGen, audio, TRUE)
            /\ FinishStory(pending)
       ELSE /\ Outstanding(pending, "tts") < MaxPendingTts
            /\ storyGen' = [storyGen EXCEPT !.isGeneratingAudio = TRUE]
            /\ UNCHANGED audio
            /\ FinishStory(pending (+) One([Request("tts") EXCEPT !.id = <<storyGen.story>>]))
    /\ UNCHANGED <<appVars, dailyVars, storedPrefs, gwCall>>
    /\ NoReading

\* what generateTextToSpeech resolves to: audio data that decodes, audio
\* data that playFromBase64 fails on, or null (part_000:237-258)
TtsOutcomes == {"audio", "undecodable", "null"}

\* playAudio from the await on (StoryGenerator.tsx:68-77).  It plays the
\* data whether or not the component is still mounted; only the setters of
\* an unmounted component do nothing.
TtsResponse(r, outcome) ==
    /\ r.kind = "tts"
    /\ BagIn(r, pending)
    /\ IF outcome = "null"
       THEN /\ storyGen' = IF r.alive THEN [storyGen EXCEPT !.isGeneratingAudio = FALSE]
                           ELSE storyGen
            /\ UNCHANGED audio
       ELSE IF outcome = "undecodable"
       THEN /\ storyGen' = IF r.alive
                           THEN [storyGen EXCEPT !.audioBase64 = r.id[1], !.isPlaying = FALSE,
                                                 !.isGeneratingAudio = FALSE]
                           ELSE storyGen
            /\ UNCHANGED audio
       ELSE /\ Cardinality(audio) < MaxNodes
            /\ storyGen' = IF r.alive
                           THEN [PlayFromBase64(storyGen, audio) EXCEPT
                                    !.audioBase64 = r.id[1], !.isGeneratingAudio = FALSE]
                           ELSE storyGen
            /\ audio' = Started(storyGen, audio, r.alive)
    /\ UNCHANGED <<appVars, dailyVars, storedPrefs, gwCall>>
    /\ NoReading
    /\ FinishStory(pending (-) One(r))

\* the Stop Audio button, shown while isPlaying is true (StoryGenerator.tsx:206-212)
HandleStopAudio ==
    /\ StoryShown
    /\ storyGen.isPlaying
    /\ storyGen' = StopAudio(storyGen)
    /\ audio' = StopNode(audio, storyGen.sourceNodeRef)
    /\ UNCHANGED <<appVars, dailyVars, storedPrefs, gwCall>>
    /\ NoReading
    /\ FinishStory(pending)

\* The ended event of a source node, which has played to its end or has been
\* stopped: source.onended = () => setIsPlaying(false) (StoryGenerator.tsx:116)
OnEnded(n) ==
    /\ n \in audio
    /\ audio' = audio \ {n}
    /\ storyGen' = IF n.owned THEN [storyGen EXCEPT !.isPlaying = FALSE] ELSE storyGen
    /\ UNCHANGED <<appVars, dailyVars, storedPrefs, gwCall>>
    /\ NoReading
    /\ FinishStory(pending)

\* ------------------------------------------------------------------- Next
\* The controller: App with the favourite toggles of its cards, and
\* DailyStudy as far as it feeds the history list (lessons of sentences,
\* default settings form).
SentenceLessons ==
    {GenerateDailyLesson(l, [k \in 1..MaxLesson |-> <<"i">>]) :
        l \in SeqsUpTo({it \in LessonItems : it.type = "sentence" /\ it.id = <<>>}, MaxSentences)}

Next ==
    \/ \E v \in NavViews : OnNavigate(v)
    \/ \E t \in TextInputs : SetTextInput(t)
    \/ HandleAnalyze
    \/ \E r \in BagToSet(pending), o \in AnalysisOutcomes : AnalyzeResponse(r, o)
    \/ \E r \in BagToSet(pending), o \in AnalysisOutcomes : QuickResponse(r, o)
    \/ \E slot \in Slots : ToggleFavorite(slot)
    \/ \E slot \in Slots : CardBack(slot)
    \/ ModalClose
    \/ \E i \in 1..MaxHistory : HistoryClick(i)
    \/ ToggleStoryMode
    \/ SavePreferences
    \/ StartDailySession
    \/ \E r \in BagToSet(pending), o \in AnalysisOutcomes, l \in SentenceLessons :
          LessonResponse(r, o, l)
    \/ HandleNext
    \/ BackToDashboard
    \/ HandleSaveDailyItem
    \/ \E word \in Words : HandleQuickLookup(word)

Spec == Init /\ [][Next]_vars

\* ------------------------------------------------ the mnemonic image cache
\* The cards and their image generation, over items that quick lookups
\* create: a card is opened in the modal by a lookup and in the analysis view
\* from the history list.
NextImage ==
    \/ \E v \in NavViews : OnNavigate(v)
    \/ \E r \in BagToSet(pending), o \in AnalysisOutcomes : QuickResponse(r, o)
    \/ \E slot \in Slots : HandleGenerateImage(slot)
    \/ \E r \in BagToSet(pending), o \in ImageOutcomes : ImageResponse(r, o)
    \/ \E slot \in Slots : CardBack(slot)
    \/ ModalClose
    \/ \E i \in 1..MaxHistory : HistoryClick(i)
    \/ SavePreferences
    \/ StartDailySession
    \/ \E r \in BagToSet(pending), o \in AnalysisOutcomes, l \in SentenceLessons :
          LessonResponse(r, o, l)
    \/ HandleNext
    \/ BackToDashboard
    \/ \E word \in Words : HandleQuickLookup(word)

SpecImage == Init /\ [][NextImage]_vars

\* ------------------------------------------------- the gateway on its own
\* analyzeContent and generateMnemonicImage called with arguments of the
\* caller's choosing, next to the one caller that passes text and image
\* (handleAnalyze).  gwCall holds the arguments of the last direct call and
\* how far it got: "threw" before the provider call, "awaiting" the provider,
\* "returned" a value or "rejected" after the provider's answer.
GatewayTexts == {NullStr, "", "hello"}
GatewayImages == {NullStr, "", "AAAA"}
SourceLangs == {"Auto", "English"}

\* analyzeContent up to the provider call (part_000:16-102)
GwAnalyzeContent(text, imageBase64, src) ==
    /\ Outstanding(pending, "direct") = 0
    /\ LET call == AnalyzeContentParts(text, imageBase64, src, targetLang)
       IN /\ gwCall' = [fn |-> "analyzeContent", text |-> text, image |-> imageBase64,
                        phase |-> IF call.threw THEN "threw" ELSE "awaiting",
                        message |-> call.message, parts |-> call.parts, url |-> NoUrl]
          /\ UNCHANGED <<appVars, dailyVars, storedPrefs>>
          /\ NoReading
          /\ Finish(IF call.threw THEN pending
                    ELSE pending (+) One([Request("direct") EXCEPT !.data = AnalysisOf(call.parts)]),
                    generatingImage)

\* analyzeContent from the provider call on (part_000:104-111)
GwAnalyzeContentReturn(r, outcome) ==
    /\ r.kind = "direct"
    /\ BagIn(r, pending)
    /\ LET result == AnalyzeContentResult(outcome, r.data)
       IN gwCall' = [gwCall EXCEPT !.phase = IF result.threw THEN "rejected" ELSE "returned",
                                   !.message = IF result.threw THEN outcome ELSE ""]
    /\ UNCHANGED <<appVars, dailyVars, storedPrefs>>
    /\ NoReading
    /\ Finish(pending (-) One(r), generatingImage)

\* generateMnemonicImage with the provider's answer (part_000:118-144)
GwGenerateMnemonicImage(outcome) ==
    /\ Outstanding(pending, "direct") = 0
    /\ gwCall' = [fn |-> "generateMnemonicImage", text |-> outcome.kind, image |-> NullStr,
                  phase |-> "returned", message |-> "", parts |-> outcome.parts,
                  url |-> GenerateMnemonicImage(outcome)]
    /\ UNCHANGED <<appVars, dailyVars, storedPrefs>>
    /\ NoReading
    /\ Finish(pending, generatingImage)

NextGateway ==
    \/ \E text \in GatewayTexts, img \in GatewayImages, src \in SourceLangs :
          GwAnalyzeContent(text, img, src)
    \/ \E r \in BagToSet(pending), o \in AnalysisOutcomes : GwAnalyzeContentReturn(r, o)
    \/ \E o \in ImageOutcomes : GwGenerateMnemonicImage(o)
    \/ \E t \in TextInputs : SetTextInput(t)
    \/ \E img \in DataUris : HandleImageUpload(img)
    \/ ClearImage
    \/ HandleAnalyze
    \/ \E r \in BagToSet(pending), o \in AnalysisOutcomes : AnalyzeResponse(r, o)
    \/ CardBack("main")

SpecGateway == Init /\ [][NextGateway]_vars

\* ------------------------------------------------- DailyStudy on its own
\* DailyStudy with every lesson and every choice of the settings form,
\* mounted and unmounted by the navigation.
NextDaily ==
    \/ \E v \in {"HOME", "DAILY_STUDY"} : OnNavigate(v)
    \/ \E l \in Levels : SetTempLevel(l)
    \/ \E g \in Goals : SetTempGoal(g)
    \/ SavePreferences
    \/ AdjustLevel
    \/ StartDailySession
    \/ \E r \in BagToSet(pending), o \in AnalysisOutcomes, l \in Lessons, rs \in RandomSeqs :
          LessonResponse(r, o, GenerateDailyLesson(l, rs))
    \/ HandleNext
    \/ \E index \in 0..(NumOptions - 1) : HandleQuizAnswer(index)
    \/ BackToDashboard
    \/ HandleSaveDailyItem

SpecDaily == Init /\ [][NextDaily]_vars

\* ================================================================= claims

\* C1: the ids of the items of the history list are pairwise distinct, also
\* when two items are created at the same clock reading.
C1_IdsDistinct ==
    \A i, j \in DOMAIN history : i # j => history[i].id # history[j].id

\* C2: a step that creates an item (it is the step that reads the clock) puts
\* exactly that one item at the head of the list and leaves the items that
\* were there as they were and in their order; no other step changes the
\* length of the list; the timestamps never increase from head to tail.
MostRecentFirst ==
    \A i, j \in DOMAIN history : i < j => history[i].timestamp >= history[j].timestamp

C2_PrependsOne ==
    /\ [](MostRecentFirst)
    /\ [][IF clockRead' # "no"
          THEN /\ Len(history') = Len(history) + 1
               /\ Tail(history') = history
               /\ history'[1].timestamp = now'
          ELSE Len(history') = Len(history)]_vars

C2_Witness ==
    /\ Len(history) = 2
    /\ history[1].data = "w"
    /\ history[2].data = "hello"
    /\ history[1].timestamp > history[2].timestamp

\* C3: analyzeContent called with neither text nor image throws "No input
\* provided" and no request goes to the provider; and while both inputs of
\* the home view are empty, handleAnalyze cannot act: no step sends a main
\* analysis request, sets the busy flag or sets an error.
BothInputsEmpty == ~Truthy(textInput) /\ ~selectedImage.present

C3_NoInputNoRequest ==
    /\ []((gwCall.fn = "analyzeContent" /\ ~Truthy(gwCall.text) /\ gwCall.image = NullStr)
            => /\ gwCall.phase = "threw"
               /\ gwCall.message = ErrNoInput
               /\ gwCall.parts = <<>>
               /\ Outstanding(pending, "direct") = 0)
    /\ [](BothInputsEmpty => ~ENABLED HandleAnalyze)
    /\ [][BothInputsEmpty =>
            /\ Outstanding(pending', "main") <= Outstanding(pending, "main")
            /\ (isAnalyzing' => isAnalyzing)
            /\ (error' # error => Outstanding(pending', "main") < Outstanding(pending, "main"))]_vars

C3_Witness ==
    /\ gwCall.fn = "analyzeContent"
    /\ gwCall.text = NullStr
    /\ gwCall.image = NullStr
    /\ gwCall.phase = "threw"
    /\ BothInputsEmpty
    /\ view = "HOME"

\* C4 as stated: analyzeContent throws before the provider call when both a
\* text and an image are supplied.
C4_ExactlyOne ==
    (gwCall.fn = "analyzeContent" /\ Truthy(gwCall.text) /\ Truthy(gwCall.image))
        => gwCall.phase = "threw"

\* C4 as amended: analyzeContent throws before the provider call exactly when
\* neither a text nor an image is supplied; with both supplied it sends one
\* request, which carries the image and not the text.
C4_AtLeastOne ==
    gwCall.fn = "analyzeContent" =>
        /\ gwCall.phase = "threw" <=> (~Truthy(gwCall.text) /\ ~Truthy(gwCall.image))
        /\ (Truthy(gwCall.text) /\ Truthy(gwCall.image) /\ gwCall.phase = "awaiting") =>
              /\ Outstanding(pending, "direct") = 1
              /\ \E i \in DOMAIN gwCall.parts :
                    /\ gwCall.parts[i].kind = "inlineData"
                    /\ gwCall.parts[i].value[2] = gwCall.image
              /\ \A i \in DOMAIN gwCall.parts :
                    \A k \in DOMAIN gwCall.parts[i].value : gwCall.parts[i].value[k] # gwCall.text

C4_Witness ==
    /\ gwCall.fn = "analyzeContent"
    /\ Truthy(gwCall.text)
    /\ Truthy(gwCall.image)
    /\ gwCall.phase = "awaiting"

\* C5: at most one main analysis request and at most one quick lookup
\* request is outstanding.
C5_OnePerEntryPoint ==
    /\ Outstanding(pending, "main") <= 1
    /\ Outstanding(pending, "quick") <= 1

\* C6: toggling the favourite of an id twice gives the list back; a toggle
\* step keeps the length and order of the list and the id, timestamp, data
\* and image of every item, negates isFavorite of the items with the card's
\* id and keeps it for the others.
HistoryIds == {history[i].id : i \in DOMAIN history}

C6_ToggleInvolution ==
    /\ [](\A id \in HistoryIds : ToggledList(ToggledList(history, id), id) = history)
    /\ [][\A slot \in Slots : ToggleFavorite(slot) =>
            /\ Len(history') = Len(history)
            /\ \A k \in DOMAIN history :
                  /\ history'[k].id = history[k].id
                  /\ history'[k].timestamp = history[k].timestamp
                  /\ history'[k].data = history[k].data
                  /\ history'[k].generatedImageUrl = history[k].generatedImageUrl
                  /\ history'[k].isFavorite =
                        IF history[k].id = CardItem(slot).id
                        THEN ~history[k].isFavorite ELSE history[k].isFavorite]_vars

\* a main analysis or lookup item, created not favourite, is favourite next
\* to an item that is not
C6_Witness ==
    /\ Len(history) = 2
    /\ \E i \in DOMAIN history : history[i].isFavorite /\ history[i].data # "sentence"
    /\ \E i \in DOMAIN history : ~history[i].isFavorite

\* C7: while a quick-view item is open, its isFavorite is that of the item
\* of the history list with its id.
C7_QuickViewInSync ==
    quickViewItem # NoItem =>
        \A i \in DOMAIN history :
            history[i].id = quickViewItem.id => history[i].isFavorite = quickViewItem.isFavorite

\* C8: an image url of a history item, once set, stays as it is.  (The items
\* keep their distance from the tail of the list.)
C8_ImageSetOnce ==
    [][\A i \in DOMAIN history :
          history[i].generatedImageUrl # NoUrl =>
             history'[i + Len(history') - Len(history)].generatedImageUrl
                = history[i].generatedImageUrl]_vars

\* C9: generateMnemonicImage yields the empty result for a provider error and
\* for a response without inline image; the continuation that receives it
\* leaves the history list and the quick-view item as they are, and the
\* generating flag of the card that asked, if still mounted, is false.
ImageFailed(outcome) ==
    outcome.kind = "error" \/ \A i \in DOMAIN outcome.parts : ~outcome.parts[i].inline

C9_FailedImageNoChange ==
    /\ [](\A o \in ImageOutcomes : ImageFailed(o) => GenerateMnemonicImage(o) = NoUrl)
    /\ [][\A r \in BagToSet(pending), o \in ImageOutcomes :
            (ImageFailed(o) /\ ImageResponse(r, o)) =>
                /\ lastUrl' = "empty"
                /\ history' = history
                /\ quickViewItem' = quickViewItem
                /\ r.alive => ~generatingImage'[r.slot]]_vars
    /\ [][lastUrl' = "empty" => (history' = history /\ quickViewItem' = quickViewItem)]_vars

\* a failed generation right after which an item still has its cached image
C9_Witness ==
    /\ lastUrl = "empty"
    /\ \E i \in DOMAIN history : history[i].generatedImageUrl # NoUrl
    /\ \A s \in Slots : ~generatingImage[s]

\* C10: the step that empties the lesson in the summary view (Back to
\* Dashboard) ends in the dashboard view.
C10_BackToDashboard ==
    [][(DailyState = "summary" /\ lesson # <<>> /\ lesson' = <<>> /\ view' = view)
          => DailyState' = "dashboard"]_vars

\* C11: in session 0 <= currentIndex < Len(lesson); a session starts at index
\* 0; Next on an item that is not the last adds one to the index and keeps
\* the lesson and the session, Next on the last item shows the summary; and
\* within a session the lesson stays and the index moves in no other way, so
\* that the summary comes after as many Next as the lesson has items.
C11_IndexInRange ==
    /\ [](DailyState = "in-session" => (0 <= currentIndex /\ currentIndex < Len(lesson)))
    /\ [][(DailyState # "in-session" /\ DailyState' = "in-session") => currentIndex' = 0]_vars
    /\ [][HandleNext =>
            IF currentIndex < Len(lesson) - 1
            THEN /\ currentIndex' = currentIndex + 1
                 /\ lesson' = lesson
                 /\ DailyState' = "in-session"
            ELSE /\ DailyState' = "summary"
                 /\ lesson' = lesson]_vars
    /\ [][(DailyState = "in-session" /\ DailyState' \in {"in-session", "summary"}) =>
            /\ lesson' = lesson
            /\ \/ UNCHANGED <<currentIndex, completed>>
               \/ /\ currentIndex < Len(lesson) - 1
                  /\ currentIndex' = currentIndex + 1
                  /\ ~completed'
               \/ /\ currentIndex = Len(lesson) - 1
                  /\ currentIndex' = currentIndex
                  /\ completed']_vars

\* the summary of a lesson of two items, after the second Next
C11_Witness ==
    /\ DailyState = "summary"
    /\ Len(lesson) = 2
    /\ currentIndex = 1

\* C12: an option is selected exactly when there is a verdict; within a
\* session, while the item shown stays the same, a selection made and its
\* verdict stay as they are; when the index moves to the next item or a
\* session starts, selection and verdict are none.
C12_AnswerWriteOnce ==
    /\ []((selectedOption = NoOption) <=> (isCorrect = NullStr))
    /\ [][(/\ DailyState = "in-session"
           /\ DailyState' = "in-session"
           /\ selectedOption # NoOption
           /\ currentIndex' = currentIndex
           /\ lesson' = lesson)
            => (selectedOption' = selectedOption /\ isCorrect' = isCorrect)]_vars
    /\ [][(/\ DailyState' = "in-session"
           /\ \/ DailyState # "in-session"
              \/ currentIndex' # currentIndex
              \/ lesson' # lesson)
            => (selectedOption' = NoOption /\ isCorrect' = NullStr)]_vars

\* the second item of a lesson of two quizzes, not yet answered, the first
\* one having been answered to get there
C12_Witness ==
    /\ DailyState = "in-session"
    /\ Len(lesson) = 2
    /\ lesson[1].type = "vocabulary"
    /\ lesson[2].type = "vocabulary"
    /\ currentIndex = 1
    /\ selectedOption = NoOption

\* ------------------------------------------------ StoryGenerator on its own
\* The vocabulary book of a visit that finds one favourite stored, with the
\* story mode and its audio.
StoredFavourite == NewItem(ClockStart - 1, ClockStart - 1, "hello", TRUE)

InitStory == InitLoaded(StringifyHistory(<<StoredFavourite>>), NoPrefsText)

NextStory ==
    \/ \E v \in {"HOME", "FAVORITES"} : OnNavigate(v)
    \/ ToggleStoryMode
    \/ HandleGenerate
    \/ \E r \in BagToSet(pending), o \in AnalysisOutcomes : StoryResponse(r, o)
    \/ PlayAudio
    \/ \E r \in BagToSet(pending), o \in TtsOutcomes : TtsResponse(r, o)
    \/ HandleStopAudio
    \/ \E n \in audio : OnEnded(n)

SpecStory == InitStory /\ [][NextStory]_vars

\* C13: at most one source node sounds at any time.
C13_OneSourcePlaying == Cardinality(Playing(audio)) <= 1

\* C14: the playing flag is false and the ref is null after the Stop button,
\* and the ref never holds a node that does not sound any more, be it
\* stopped or played to its end.
C14_SourceReleased ==
    /\ [][HandleStopAudio => (~storyGen'.isPlaying /\ storyGen'.sourceNodeRef = NoNode)]_vars
    /\ [](storyGen.sourceNodeRef # NoNode =>
             \E n \in Playing(audio) : n.id = storyGen.sourceNodeRef)

\* ----------------------------------------------------- the home view alone
\* The input form with its language selects, and the analysis it starts.
NextHome ==
    \/ \E v \in {"HOME", "HISTORY"} : OnNavigate(v)
    \/ \E t \in TextInputs : SetTextInput(t)
    \/ \E l \in SourceOptions : SetSourceLang(l)
    \/ \E l \in LANGUAGES : SetTargetLang(l)
    \/ HandleSwapLanguages
    \/ HandleAnalyze
    \/ \E r \in BagToSet(pending), o \in AnalysisOutcomes : AnalyzeResponse(r, o)
    \/ CardBack("main")

SpecHome == Init /\ [][NextHome]_vars

\* C15: swapLanguages gives back source and target as they are when the
\* source is Auto, and exchanges them otherwise; applied twice it gives back
\* both; a step of the swap button exchanges the two languages; and the
\* target language is never Auto.
C15_SwapLanguages ==
    /\ [](\A s \in SourceOptions, t \in LANGUAGES :
            LET once == SwapLanguages(s, t)
                twice == SwapLanguages(once[1], once[2])
            IN /\ s = "Auto" => once = <<s, t>>
               /\ s # "Auto" => once = <<t, s>>
               /\ twice = <<s, t>>)
    /\ [][HandleSwapLanguages => (sourceLang' = targetLang /\ targetLang' = sourceLang)]_vars
    /\ [](targetLang # "Auto")

\* source and target exchanged by the button: the initial target Chinese is
\* the source now
C15_Witness ==
    /\ sourceLang = "Chinese"
    /\ targetLang = "Japanese"

\* ------------------------------------------------------------ persistence
\* A visit that finds anything in localStorage: nothing, text that does not
\* parse, or what an earlier visit wrote; with reloads of the page.
StoredHistories ==
    {NoHistoryText, CorruptHistoryText, StringifyHistory(<<StoredFavourite>>)}

StoredPrefs == {NoPrefsText, CorruptPrefsText}

InitStorage == \E h \in StoredHistories, q \in StoredPrefs : InitLoaded(h, q)

\* the page is loaded again: everything starts over from what localStorage
\* holds; the requests and the audio of the old page are gone
Reload ==
    /\ view' = "HOME"
    /\ history' = LoadHistory(storedHistory)
    /\ currentId' = NullId
    /\ textInput' = ""
    /\ selectedImage' = NoImage
    /\ isAnalyzing' = FALSE
    /\ error' = NullStr
    /\ quickViewItem' = NoItem
    /\ isQuickAnalyzing' = FALSE
    /\ sourceLang' = "Auto"
    /\ targetLang' = "Chinese"
    /\ showStoryMode' = FALSE
    /\ generatingImage' = [s \in Slots |-> FALSE]
    /\ lastUrl' = "none"
    /\ DailyFresh(NoPrefs)
    /\ storyGen' = StoryFresh
    /\ audio' = {}
    /\ chat' = [s \in Slots |-> ChatFresh]
    /\ storedHistory' = StringifyHistory(history')
    /\ crashed' = FALSE
    /\ pending' = EmptyBag
    /\ MountDone
    /\ UNCHANGED <<storedPrefs, gwCall, mount>>
    /\ NoReading

NextStorage ==
    \/ Reload
    \/ \E v \in NavViews : OnNavigate(v)
    \/ \E t \in TextInputs : SetTextInput(t)
    \/ HandleAnalyze
    \/ \E r \in BagToSet(pending), o \in AnalysisOutcomes : AnalyzeResponse(r, o)
    \/ \E i \in 1..MaxHistory : HistoryClick(i)
    \/ \E slot \in Slots : ToggleFavorite(slot)
    \/ \E slot \in Slots : HandleGenerateImage(slot)
    \/ \E r \in BagToSet(pending), o \in ImageOutcomes : ImageResponse(r, o)
    \/ \E slot \in Slots : CardBack(slot)
    \/ SavePreferences

SpecStorage == InitStorage /\ [][NextStorage]_vars

\* C16: the load of a history text that does not parse gives the empty
\* list, and whatever the stored texts are, no load brings the controller
\* down: DailyStudy mounts with no preferences when its text does not parse.
C16_ParseFailureNotFatal ==
    /\ LoadHistory(CorruptHistoryText) = <<>>
    /\ ~crashed
    /\ (view = "DAILY_STUDY" /\ storedPrefs.kind # "json" /\ preferences = NoPrefs)
          => DailyState = "no-preferences"

RequestKinds == {"main", "quick", "lesson", "image", "story", "tts", "direct"}

C17_FailureSurfaced ==
    [][\A r \in BagToSet(pending), o \in AnalysisOutcomes \ {"json"} :
          (\/ AnalyzeResponse(r, o)
           \/ QuickResponse(r, o)
           \/ (r.alive /\ LessonResponse(r, o, <<>>)))
            => /\ error' = ErrAnalyze
               /\ history' = history
               /\ \A k \in RequestKinds : Outstanding(pending', k) <= Outstanding(pending, k)]_vars

\* C19: generateDailyLesson gives as many items as the provider's array has,
\* in its order, each with a non-empty id made by the client in place of the
\* provider's, the ids of one lesson pairwise distinct; and so for the
\* lesson the controller holds.
C19_LessonIds ==
    /\ \A l \in Lessons, rs \in RandomSeqs :
          LET out == GenerateDailyLesson(l, rs)
          IN /\ Len(out) = Len(l)
             /\ \A i \in DOMAIN l :
                   /\ out[i].type = l[i].type
                   /\ out[i].correctOptionIndex = l[i].correctOptionIndex
                   /\ out[i].id = RandomId(rs[i])
    /\ \A i \in DOMAIN lesson : lesson[i].id # <<>>
    /\ \A i, j \in DOMAIN lesson : i # j => lesson[i].id # lesson[j].id

\* C20: every quiz of the lesson held has its correctOptionIndex among the
\* indices of its options.
C20_CorrectIndexInRange ==
    \A i \in DOMAIN lesson :
        lesson[i].type = "vocabulary" =>
            (0 <= lesson[i].correctOptionIndex /\ lesson[i].correctOptionIndex < NumOptions)

\* ---------------------------------------------------- the tutor chat
\* The chat of the analysis view's card, over a stored item opened from the
\* history list and the items that main analyses create.
NextChat ==
    \/ \E v \in {"HOME", "HISTORY"} : OnNavigate(v)
    \/ \E t \in TextInputs : SetTextInput(t)
    \/ HandleAnalyze
    \/ \E r \in BagToSet(pending), o \in AnalysisOutcomes : AnalyzeResponse(r, o)
    \/ \E i \in 1..MaxHistory : HistoryClick(i)
    \/ CardBack("main")
    \/ \E t \in ChatInputs : SetChatInput("main", t)
    \/ HandleSend("main")
    \/ \E r \in BagToSet(pending), o \in ChatOutcomes : ChatResponse(r, o)

SpecChat == InitStory /\ [][NextChat]_vars

\* C21: every message a mounted chat widget holds was exchanged under the
\* analysis its card shows; the prior turns of every chat request were
\* exchanged under the context the request carries; and when the item a
\* card shows changes to another one, the card's chat has no messages.
C21_ChatScoped ==
    /\ [](\A s \in Slots : MountedNow(s) =>
             \A i \in DOMAIN chat[s].messages :
                chat[s].messages[i].context = Context(CardItem(s)))
    /\ [](\A r \in BagToSet(pending) : r.kind = "chat" =>
             \A i \in DOMAIN r.turns : r.turns[i].context = <<r.id, r.data>>)
    /\ [][\A s \in Slots :
            (MountedNow(s) /\ MountedNow(s)' /\ CardItem(s)'.id # CardItem(s).id)
               => chat'[s].messages = <<>>]_vars

\* ------------------------------------------------ writers of the history
\* Main analysis, quick lookup, image generation and the favourite toggle
\* side by side: every handler that writes the history list while others
\* are outstanding.
NextWrites ==
    \/ OnNavigate("DAILY_STUDY")
    \/ SetTextInput("hello")
    \/ HandleAnalyze
    \/ \E r \in BagToSet(pending), o \in {"error", "json"} : AnalyzeResponse(r, o)
    \/ SavePreferences
    \/ StartDailySession
    \/ \E r \in BagToSet(pending), l \in SentenceLessons : LessonResponse(r, "json", l)
    \/ HandleQuickLookup("w")
    \/ \E r \in BagToSet(pending), o \in {"error", "json"} : QuickResponse(r, o)
    \/ \E slot \in Slots : ToggleFavorite(slot)
    \/ \E slot \in Slots : HandleGenerateImage(slot)
    \/ \E r \in BagToSet(pending), o \in {x \in ImageOutcomes : Len(x.parts) <= 1} :
          ImageResponse(r, o)
    \/ \E slot \in Slots : CardBack(slot)
    \/ ModalClose

SpecWrites == Init /\ [][NextWrites]_vars

C23_ImageById ==
    /\ [][\A r \in BagToSet(pending), o \in ImageOutcomes :
            (GenerateMnemonicImage(o) # NoUrl /\ ImageResponse(r, o)) =>
                /\ \A i \in DOMAIN history :
                      history'[i].generatedImageUrl =
                         IF history[i].id = r.id THEN GenerateMnemonicImage(o)
                         ELSE history[i].generatedImageUrl
                /\ quickViewItem' =
                      IF quickViewItem # NoItem /\ quickViewItem.id = r.id
                      THEN [quickViewItem EXCEPT !.generatedImageUrl = GenerateMnemonicImage(o)]
                      ELSE quickViewItem]_vars
    /\ [](quickViewItem # NoItem =>
             \A i \in DOMAIN history :
                history[i].id = quickViewItem.id =>
                   history[i].generatedImageUrl = quickViewItem.generatedImageUrl)

\* C24: the modal shows its loading state only while a quick lookup is
\* outstanding; a closed modal is opened by no step but the start of a quick
\* lookup; and the item an open modal shows is not replaced by another item.
C24_ModalStaysClosed ==
    /\ [](isQuickAnalyzing => Outstanding(pending, "quick") >= 1)
    /\ [][(~ModalOpen /\ ModalOpen') =>
            Outstanding(pending', "quick") = Outstanding(pending, "quick") + 1]_vars
    /\ [][(quickViewItem # NoItem /\ quickViewItem' # NoItem) =>
            quickViewItem'.id = quickViewItem.id]_vars

\* C25: cached audio, when there is any, was made from the story held.
C25_AudioOfStory ==
    storyGen.audioBase64 # NoStory => storyGen.audioBase64 = storyGen.story

\* ------------------------------------------------------- the mount of App
\* The first render of App with its two effects, step by step.  React runs
\* the effects of a mounted component in the order of their declaration,
\* once, or twice over when the root is rendered in React.StrictMode by a
\* development build; the state updates an effect makes are applied by the
\* render that follows the effects.
EffectRounds == {1, 2}

MountEffects(n) == IF n = 1 THEN <<"load", "save">> ELSE <<"load", "save", "load", "save">>

InitMount ==
    \E h \in StoredHistories, n \in EffectRounds :
        /\ InitRest(NoPrefsText)
        /\ history = <<>>
        /\ storedHistory = h
        /\ mount = [effects |-> MountEffects(n), queue |-> <<>>, before |-> h]

mountFrame ==
    <<view, currentId, textInput, selectedImage, isAnalyzing, error, quickViewItem,
      isQuickAnalyzing, sourceLang, targetLang, showStoryMode, generatingImage, lastUrl,
      dailyVars, storyGen, audio, chat, storedPrefs, crashed, now, clockRead, pending, gwCall>>

\* the load effect (App.tsx:50-58): setHistory of the parsed text, if there
\* is a text and it parses
LoadEffect ==
    /\ mount.effects # <<>>
    /\ Head(mount.effects) = "load"
    /\ mount' = [mount EXCEPT !.effects = Tail(@),
                              !.queue = IF storedHistory.kind = "json"
                                        THEN Append(@, LoadHistory(storedHistory)) ELSE @]
    /\ UNCHANGED <<history, storedHistory, mountFrame>>

\* the save effect (App.tsx:67-69): writes the list of the render it
\* belongs to
SaveEffect ==
    /\ mount.effects # <<>>
    /\ Head(mount.effects) = "save"
    /\ storedHistory' = StringifyHistory(history)
    /\ mount' = [mount EXCEPT !.effects = Tail(@)]
    /\ UNCHANGED <<history, mountFrame>>

\* the render after the effects: the queued updates are applied in their
\* order, the last one stays; the list is a new array, so the save effect
\* is due again
Render ==
    /\ mount.effects = <<>>
    /\ mount.queue # <<>>
    /\ history' = mount.queue[Len(mount.queue)]
    /\ mount' = [mount EXCEPT !.effects = <<"save">>, !.queue = <<>>]
    /\ UNCHANGED <<storedHistory, mountFrame>>

\* the page is loaded again, and App mounts from its initial state
PageLoad(n) ==
    /\ MountDone
    /\ view' = "HOME"
    /\ history' = <<>>
    /\ currentId' = NullId
    /\ textInput' = ""
    /\ selectedImage' = NoImage
    /\ isAnalyzing' = FALSE
    /\ error' = NullStr
    /\ quickViewItem' = NoItem
    /\ isQuickAnalyzing' = FALSE
    /\ sourceLang' = "Auto"
    /\ targetLang' = "Chinese"
    /\ showStoryMode' = FALSE
    /\ generatingImage' = [s \in Slots |-> FALSE]
    /\ lastUrl' = "none"
    /\ DailyFresh(NoPrefs)
    /\ storyGen' = StoryFresh
    /\ audio' = {}
    /\ chat' = [s \in Slots |-> ChatFresh]
    /\ crashed' = FALSE
    /\ pending' = EmptyBag
    /\ mount' = [effects |-> MountEffects(n), queue |-> <<>>, before |-> storedHistory]
    /\ UNCHANGED <<storedHistory, storedPrefs, gwCall>>
    /\ NoReading

NextMount ==
    \/ LoadEffect
    \/ SaveEffect
    \/ Render
    \/ \E n \in EffectRounds : PageLoad(n)
    \/ \E v \in {"HOME", "HISTORY"} : OnNavigate(v)
    \/ \E t \in TextInputs : SetTextInput(t)
    \/ HandleAnalyze
    \/ \E r \in BagToSet(pending), o \in AnalysisOutcomes : AnalyzeResponse(r, o)
    \/ \E i \in 1..MaxHistory : HistoryClick(i)
    \/ ToggleFavorite("main")
    \/ CardBack("main")

SpecMount == InitMount /\ [][NextMount]_vars

\* C26: when the mount of App is complete and the history key held a text
\* that parses when the page was loaded, the list in memory is the list
\* that text holds and the key holds that text again.
C26_StartKeepsHistory ==
    [][(~MountDone /\ MountDone' /\ mount.before.kind = "json") =>
          /\ history' = LoadHistory(mount.before)
          /\ storedHistory' = mount.before]_vars

\* C27: the response that brings a lesson to a mounted DailyStudy finds the
\* stored preferences with the level and the daily goal it was requested
\* for; and the stored preferences do not change
\* while a lesson request of the mounted DailyStudy is outstanding nor while
\* a lesson is in session.
C27_LessonOfPreferences ==
    /\ [][\A r \in BagToSet(pending) :
            (/\ r.kind = "lesson"
             /\ r.alive
             /\ CopiesIn(r, pending') < CopiesIn(r, pending)
             /\ lesson' # <<>>
             /\ lesson' # lesson)
              => /\ storedPrefs'.kind = "json"
                 /\ storedPrefs'.value.level = r.level
                 /\ storedPrefs'.value.dailyGoal = r.count]_vars
    /\ [][(\E r \in BagToSet(pending) : r.kind = "lesson" /\ r.alive /\ BagIn(r, pending'))
            => storedPrefs' = storedPrefs]_vars
    /\ [][(DailyState = "in-session" /\ DailyState' = "in-session")
            => (storedPrefs' = storedPrefs /\ preferences' = preferences)]_vars

\* ------------------------------------------------- the stored preferences
\* DailyStudy on a visit that finds preferences stored, with a streak and a
\* last study date, or none.
StoredStreak == [level |-> "B1", dailyGoal |-> DefaultGoal, streak |-> 3, lastStudyDate |-> "2026-01-01"]

InitPrefs == \E q \in {NoPrefsText, StringifyPrefs(StoredStreak)} : InitLoaded(NoHistoryText, q)

NextPrefs ==
    \/ \E v \in {"HOME", "DAILY_STUDY"} : OnNavigate(v)
    \/ \E l \in Levels : SetTempLevel(l)
    \/ \E g \in Goals : SetTempGoal(g)
    \/ SavePreferences
    \/ AdjustLevel
    \/ StartDailySession
    \/ \E r \in BagToSet(pending), o \in AnalysisOutcomes, l \in SentenceLessons :
          LessonResponse(r, o, l)
    \/ HandleNext
    \/ BackToDashboard

SpecPrefs == InitPrefs /\ [][NextPrefs]_vars

StoredDefault == [level |-> "B1", dailyGoal |-> DefaultGoal, streak |-> 0, lastStudyDate |-> ""]

InitLive == InitLoaded(StringifyHistory(<<StoredFavourite>>), StringifyPrefs(StoredDefault))

AnalyzeAnswered == \E r \in BagToSet(pending), o \in {"error", "json"} : AnalyzeResponse(r, o)
QuickAnswered == \E r \in BagToSet(pending), o \in {"error", "json"} : QuickResponse(r, o)
LessonAnswered ==
    \E r \in BagToSet(pending), o \in {"error", "json"}, l \in SentenceLessons : LessonResponse(r, o, l)
StoryAnswered == \E r \in BagToSet(pending), o \in {"error", "json"} : StoryResponse(r, o)
TtsAnswered == \E r \in BagToSet(pending), o \in {"null", "undecodable"} : TtsResponse(r, o)
ImageAnswered(slot) ==
    \E r \in BagToSet(pending),
       o \in {x \in ImageOutcomes : x.parts \in {<<>>, <<[inline |-> TRUE, mimeType |-> "image/png", data |-> "img1"]>>}} :
        r.slot = slot /\ ImageResponse(r, o)
ChatAnswered(slot) ==
    \E r \in BagToSet(pending), o \in {"error", "text"} : r.slot = slot /\ ChatResponse(r, o)

NextLive ==
    \/ (pending = EmptyBag /\ \E v \in NavViews : OnNavigate(v))
    \/ SetTextInput("hello")
    \/ HandleAnalyze
    \/ AnalyzeAnswered
    \/ StartDailySession
    \/ LessonAnswered
    \/ HandleQuickLookup("w")
    \/ QuickAnswered
    \/ ModalClose
    \/ \E i \in 1..MaxHistory : HistoryClick(i)
    \/ HandleGenerateImage("main")
    \/ ImageAnswered("main")
    \/ SetChatInput("main", <<"q">>)
    \/ HandleSend("main")
    \/ ChatAnswered("main")
    \/ ToggleStoryMode
    \/ HandleGenerate
    \/ StoryAnswered
    \/ PlayAudio
    \/ TtsAnswered

SpecLiveSafe == InitLive /\ [][NextLive]_vars

SpecLive ==
    /\ SpecLiveSafe
    /\ WF_vars(AnalyzeAnswered)
    /\ WF_vars(QuickAnswered)
    /\ WF_vars(LessonAnswered)
    /\ WF_vars(StoryAnswered)
    /\ WF_vars(TtsAnswered)
    /\ WF_vars(ImageAnswered("main"))
    /\ WF_vars(ChatAnswered("main"))

C30_AnalysisHasItem ==
    /\ [](view = "ANALYSIS" => (currentItem # NoItem /\ MountedNow("main")))
    /\ [][\A r \in BagToSet(pending) : AnalyzeResponse(r, "json") =>
            /\ view' = "ANALYSIS"
            /\ Tail(history') = history
            /\ history'[1].data = r.data
            /\ Find(history', currentId') = history'[1]]_vars
    /\ [][\A i \in 1..MaxHistory : HistoryClick(i) =>
            (view' = "ANALYSIS" /\ currentId' = history[i].id)]_vars

\* the analysis view right after a successful main analysis, showing the
\* new item above an older one
C30_Witness ==
    /\ view = "ANALYSIS"
    /\ clockRead = "response"
    /\ Len(history) = 2
    /\ history[1].data = "hello"
    /\ currentId = history[1].id
    /\ isAnalyzing = FALSE

====
